---- MODULE Spec2Model ----
(***************************************************************************)
(* Name-identity resolution engine of name-matcher:                        *)
(*   matcher/name_variants.py  generate_nicknames, generate_name_variants  *)
(*   matcher/matcher.py        calculate_multiple_fuzzy_scores,            *)
(*                             get_best_fuzzy_match,                       *)
(*                             match_name_against_article,                 *)
(*                             llm_name_match_fallback                     *)
(* A Python str is a sequence of one-character strings; None is the model  *)
(* value NoneVal; a fused score is kept in tenths (850 is 85.0) so that    *)
(* the weights 0.4/0.3/0.2/0.1 stay integers.                              *)
(***************************************************************************)
EXTENDS Integers, Sequences, FiniteSets, TLC

VARIABLES
  phase,          \* "idle", "generated" (variants in hand), "decided"
  case_name,      \* the full name of the case
  case_variants,  \* what generate_name_variants returned
  gen_raised,     \* whether generate_name_variants raised
  case_nick,      \* what llm.invoke did in generate_nicknames (a local of
                  \* the generate call: kept until the variants are used)
  case_articles,  \* the list handed to match_name_against_article
  case_high,      \* its high_threshold, in tenths
  case_low,       \* its low_threshold, in tenths
  case_best,      \* what get_best_fuzzy_match returned in the call
  llm_calls,      \* llm.invoke calls made by the match call
  case_response,  \* what llm.invoke did in the match call
  result          \* the decision match_name_against_article returned

\* ------------------------------------------------------------------------
\* Python str primitives
\* ------------------------------------------------------------------------

\* Python's None where a str is expected: no str has it as a character
NoneVal == <<"None">>

\* str.isspace() of one character, over the characters the inputs use
IsSpace(c) == c \in {" ", "\n"}

\* str.lower() of one character: the upper-case letters and their lower case
LowerOf ==
  [A |-> "a", B |-> "b", C |-> "c", D |-> "d", E |-> "e", F |-> "f", G |-> "g",
   H |-> "h", I |-> "i", J |-> "j", K |-> "k", L |-> "l", M |-> "m", N |-> "n",
   O |-> "o", P |-> "p", Q |-> "q", R |-> "r", S |-> "s", T |-> "t", U |-> "u",
   V |-> "v", W |-> "w", X |-> "x", Y |-> "y", Z |-> "z"]
LowerChar(c) == IF c \in DOMAIN LowerOf THEN LowerOf[c] ELSE c

\* str.lower()
Lower(s) == [i \in 1..Len(s) |-> LowerChar(s[i])]

\* the index of the first character of s at or after i that is not
\* whitespace, Len(s) + 1 when there is none
RECURSIVE SkipSpaces(_, _)
SkipSpaces(s, i) ==
  IF i <= Len(s) /\ IsSpace(s[i]) THEN SkipSpaces(s, i + 1) ELSE i

\* the index of the last character of s at or before i that is not
\* whitespace, 0 when there is none
RECURSIVE SkipSpacesBack(_, _)
SkipSpacesBack(s, i) ==
  IF i >= 1 /\ IsSpace(s[i]) THEN SkipSpacesBack(s, i - 1) ELSE i

\* str.lstrip()
LStrip(s) == SubSeq(s, SkipSpaces(s, 1), Len(s))

\* str.rstrip()
RStrip(s) == SubSeq(s, 1, SkipSpacesBack(s, Len(s)))

\* str.strip()
Strip(s) == SubSeq(s, SkipSpaces(s, 1), SkipSpacesBack(s, Len(s)))

\* the tokens of s from index start on, separated by the character sep,
\* empty tokens kept; i is the index being read
RECURSIVE SplitKeep(_, _, _, _)
SplitKeep(s, sep, start, i) ==
  IF i > Len(s) THEN <<SubSeq(s, start, Len(s))>>
  ELSE IF s[i] = sep
       THEN <<SubSeq(s, start, i - 1)>> \o SplitKeep(s, sep, i + 1, i + 1)
       ELSE SplitKeep(s, sep, start, i + 1)

\* str.split(sep) for a one-character separator
SplitOn(s, sep) == SplitKeep(s, sep, 1, 1)

\* str.split(): split on runs of whitespace, no empty tokens; the token
\* being read starts at start, i is the index being read
RECURSIVE SplitSpace(_, _, _)
SplitSpace(s, start, i) ==
  IF i > Len(s) THEN (IF start > Len(s) THEN <<>> ELSE <<SubSeq(s, start, Len(s))>>)
  ELSE IF IsSpace(s[i])
       THEN (IF start = i THEN <<>> ELSE <<SubSeq(s, start, i - 1)>>)
            \o SplitSpace(s, i + 1, i + 1)
       ELSE SplitSpace(s, start, i + 1)

Split(s) == SplitSpace(s, 1, 1)

\* sep.join(parts)
RECURSIVE Join(_, _)
Join(parts, sep) ==
  IF parts = <<>> THEN <<>>
  ELSE IF Len(parts) = 1 THEN parts[1]
  ELSE parts[1] \o sep \o Join(Tail(parts), sep)

\* re.sub(r'\s+', ' ', s): every run of whitespace becomes one space
RECURSIVE CollapseSpaces(_)
CollapseSpaces(s) ==
  IF s = <<>> THEN <<>>
  ELSE IF IsSpace(Head(s))
       THEN <<" ">> \o CollapseSpaces(LStrip(s))
       ELSE <<Head(s)>> \o CollapseSpaces(Tail(s))

\* re.sub(r"['\-\.]", "", s): apostrophes, hyphens and periods deleted
StripPunct(s) == SelectSeq(s, LAMBDA c : c \notin {"'", "-", "."})

\* s.startswith(p)
StartsWith(s, p) == Len(s) >= Len(p) /\ SubSeq(s, 1, Len(p)) = p

\* s.endswith(p)
EndsWith(s, p) == Len(s) >= Len(p) /\ SubSeq(s, Len(s) - Len(p) + 1, Len(s)) = p

\* p in s (substring test)
Contains(s, p) ==
  \E i \in 1..(Len(s) - Len(p) + 1) : SubSeq(s, i, i + Len(p) - 1) = p

\* s.find(c, i) as an index from 1, 0 when c is not in s[i..]
RECURSIVE Find(_, _, _)
Find(s, c, i) ==
  IF i > Len(s) THEN 0 ELSE IF s[i] = c THEN i ELSE Find(s, c, i + 1)

\* s.split(':', 1)[-1]: what follows the first colon, or s when it has none
AfterColonAt(s, k) == IF k = 0 THEN s ELSE SubSeq(s, k + 1, Len(s))

AfterFirstColon(s) == AfterColonAt(s, Find(s, ":", 1))

\* f"{a} {b}"
Sp(a, b) == a \o <<" ">> \o b

\* s[0]; IndexError when s is empty
IndexError == <<"IndexError">>
Index0(s) == IF s = <<>> THEN IndexError ELSE <<s[1]>>

\* ------------------------------------------------------------------------
\* matcher/name_variants.py
\* ------------------------------------------------------------------------

\* nameparser: a piece is a title when, lower-cased and without periods, it
\* is in the titles table (the entries the inputs use)
IsTitle(piece) == StripPunct(Lower(piece)) \in {<<"m", "r">>, <<"d", "r">>}

\* nameparser: a parenthesised piece is a nickname and is taken out of the
\* name before the pieces are assigned
IsNicknamePiece(piece) ==
  Len(piece) >= 2 /\ Head(piece) = "(" /\ piece[Len(piece)] = ")"

\* nameparser: the number of leading pieces taken as titles; a title must
\* have a next piece unless it is the only piece
RECURSIVE TitleCount(_, _)
TitleCount(pieces, plen) ==
  IF pieces # <<>> /\ IsTitle(Head(pieces)) /\ (Len(pieces) > 1 \/ plen = 1)
  THEN 1 + TitleCount(Tail(pieces), plen)
  ELSE 0

\* HumanName(full_name): the first, middle and last members (titles and
\* nicknames set aside; the piece after the titles is the first name, the
\* final piece the last name, the pieces between them the middle name; a
\* title followed by one name only is "Mr. Johnson": a last name)
HumanName(full_name) ==
  LET all    == Split(full_name)
      nicks  == SelectSeq(all, IsNicknamePiece)
      pieces == SelectSeq(all, LAMBDA t : ~ IsNicknamePiece(t))
      plen   == Len(pieces)
      nt     == TitleCount(pieces, plen)
      rest   == SubSeq(pieces, nt + 1, plen)
      first0 == IF rest = <<>> \/ (plen = 1 /\ nicks # <<>>) THEN <<>> ELSE rest[1]
      last0  == IF rest = <<>> THEN <<>>
                ELSE IF plen = 1 /\ nicks # <<>> THEN rest[1]
                ELSE IF Len(rest) >= 2 THEN rest[Len(rest)] ELSE <<>>
      middle == IF Len(rest) >= 3
                THEN Join(SubSeq(rest, 2, Len(rest) - 1), <<" ">>) ELSE <<>>
      members == (IF nt > 0 THEN 1 ELSE 0) + (IF first0 # <<>> THEN 1 ELSE 0)
                 + (IF middle # <<>> THEN 1 ELSE 0) + (IF last0 # <<>> THEN 1 ELSE 0)
                 + (IF nicks # <<>> THEN 1 ELSE 0)
      swap   == nt > 0 /\ members = 2
  IN  [first  |-> IF swap THEN last0 ELSE first0,
       middle |-> middle,
       last   |-> IF swap THEN first0 ELSE last0]

\* A response of the nickname lookup (llm.invoke in generate_nicknames):
\*   raise   the call raises
\*   prose   text that is not a bracketed literal
\*   badlit  bracketed text that ast.literal_eval rejects (it raises)
\*   list    a list literal; an item is a str or NonStr (any other value)
NonStr == "NonStr"

\* generate_nicknames without the validation of line 30 (all items are
\* str): the str items of any list are kept. What C12 rests on
generate_nicknames_unvalidated(name, resp) ==
  IF name = <<>> \/ Len(Strip(name)) < 2 THEN <<>>
  ELSE IF resp.kind = "list"
       THEN SelectSeq(SelectSeq(resp.items, LAMBDA n : n # NonStr),
                      LAMBDA n : Strip(n) # <<>>)
       ELSE <<>>

\* generate_nicknames(name)
generate_nicknames(name, resp) ==
  IF name = <<>> \/ Len(Strip(name)) < 2 THEN <<>>
  ELSE IF resp.kind = "list" /\ \A i \in 1..Len(resp.items) : resp.items[i] # NonStr
       THEN SelectSeq(resp.items, LAMBDA n : Strip(n) # <<>>)
       ELSE <<>>

\* RawVariants without line 65, variants.add(f"{first} {last}"): what C9
\* rests on
RawVariantsNoBasic(first, middle, last, nicknames) ==
  (IF middle # <<>>
   THEN {Sp(first, Sp(middle, last)), Sp(middle, last)}
   ELSE {})
  \cup (IF Len(first) > 0
        THEN {Sp(Index0(first) \o <<".">>, last), Sp(Index0(first), last)}
        ELSE {})
  \cup {Sp(nicknames[i], last) : i \in 1..Len(nicknames)}

\* generate_name_variants, lines 64-92: the raw variants of first/middle/last
RawVariants(first, middle, last, nicknames) ==
  {Sp(first, last)}
  \cup (IF middle # <<>>
        THEN {Sp(first, Sp(middle, last)),
              Sp(first, Sp(Index0(middle) \o <<".">>, last)),
              Sp(middle, last)}
             \cup (IF Len(middle) > 1
                   THEN {Sp(Index0(middle) \o <<".">>, last)} ELSE {})
        ELSE {})
  \cup (IF Len(first) > 0
        THEN {Sp(Index0(first) \o <<".">>, last), Sp(Index0(first), last)}
        ELSE {})
  \cup UNION {(IF nicknames[i] # <<>>
               THEN {Sp(nicknames[i], last)}
                    \cup (IF middle # <<>>
                          THEN {Sp(nicknames[i], Sp(Index0(middle) \o <<".">>, last))}
                          ELSE {})
               ELSE {}) : i \in 1..Len(nicknames)}
  \cup (IF Contains(last, <<"-">>)
        THEN LET last_parts == SplitOn(last, "-")
             IN  {Sp(first, last_parts[i]) :
                    i \in {j \in 1..Len(last_parts) : last_parts[j] # <<>>}}
        ELSE {})

\* CleanVariants without line 103, the copy with apostrophes, hyphens and
\* periods removed: what C19 rests on
CleanVariantsNoCopy(variants) ==
  {CollapseSpaces(Strip(variant)) :
     variant \in {v \in variants : v # <<>> /\ Strip(v) # <<>>}}

\* generate_name_variants, lines 94-104: the cleaned variants
CleanVariants(variants) ==
  UNION {LET clean_variant == CollapseSpaces(Strip(variant))
         IN  {clean_variant, StripPunct(clean_variant)} :
           variant \in {v \in variants : v # <<>> /\ Strip(v) # <<>>}}

\* generate_name_variants, lines 52-59: the whitespace-token fallback, taken
\* when the parsed first and last names are both empty
Fallback(first, middle, last, tokens) ==
  IF first = <<>> /\ last = <<>> /\ Len(tokens) >= 2
  THEN [first  |-> tokens[1],
        middle |-> IF Len(tokens) > 2
                   THEN Join(SubSeq(tokens, 2, Len(tokens) - 1), <<" ">>)
                   ELSE middle,
        last   |-> tokens[Len(tokens)]]
  ELSE [first |-> first, middle |-> middle, last |-> last]

\* generate_name_variants, lines 45-50: the parsed members, lower-cased and
\* stripped
ParsedParts(name) ==
  [first  |-> Strip(Lower(name.first)),
   middle |-> Strip(Lower(name.middle)),
   last   |-> Strip(Lower(name.last))]

\* generate_name_variants, lines 45-59: first, middle and last after parsing
\* and after the fallback
FallbackOf(parsed, full_name) ==
  Fallback(parsed.first, parsed.middle, parsed.last, Split(full_name))

NameParts(full_name) == FallbackOf(ParsedParts(HumanName(full_name)), full_name)

\* generate_name_variants, lines 94-104, or the IndexError that escaped
\* while the raw variants were built
Returned(raw) ==
  IF \E v \in raw : Contains(v, IndexError)
  THEN [raised |-> TRUE, value |-> {}]
  ELSE [raised |-> FALSE, value |-> CleanVariants(raw)]

\* VariantsOfParts without the guard of lines 61-62 (if not first or not
\* last: return set()): what C10 rests on
VariantsOfPartsUnguarded(p, resp) ==
  Returned(RawVariants(p.first, p.middle, p.last, generate_nicknames(p.first, resp)))

\* generate_name_variants, lines 61-104, p the first, middle and last names
VariantsOfParts(p, resp) ==
  IF p.first = <<>> \/ p.last = <<>>
  THEN [raised |-> FALSE, value |-> {}]
  ELSE Returned(RawVariants(p.first, p.middle, p.last, generate_nicknames(p.first, resp)))

\* generate_name_variants(full_name), resp the nickname lookup's response:
\* the returned set, and whether an exception escaped
generate_name_variants(full_name, resp) ==
  IF full_name = <<>> \/ Strip(full_name) = <<>>
  THEN [raised |-> FALSE, value |-> {}]
  ELSE VariantsOfParts(NameParts(full_name), resp)

\* ------------------------------------------------------------------------
\* fuzzywuzzy.fuzz as matcher/matcher.py calls it (difflib SequenceMatcher)
\* ------------------------------------------------------------------------

\* utils.intr(100 * 2.0 * m / t): int(round(.)), halves rounded to even
Intr200(m, t) ==
  LET q == (200 * m) \div t
      r == (200 * m) % t
  IN  IF 2 * r < t THEN q
      ELSE IF 2 * r > t THEN q + 1
      ELSE IF q % 2 = 0 THEN q ELSE q + 1

\* the length of the common run a[i..], b[j..] inside a[..ahi], b[..bhi]
RECURSIVE RunLen(_, _, _, _, _, _)
RunLen(a, b, i, j, ahi, bhi) ==
  IF i <= ahi /\ j <= bhi /\ a[i] = b[j]
  THEN 1 + RunLen(a, b, i + 1, j + 1, ahi, bhi)
  ELSE 0

\* SequenceMatcher.find_longest_match(alo, ahi, blo, bhi), bounds inclusive:
\* the scan of row i from column j on, best the longest run seen so far; a
\* later run replaces it only when strictly longer, which keeps the least
\* i, then the least j
RECURSIVE ScanRow(_, _, _, _, _, _, _)
ScanRow(a, b, i, j, ahi, bhi, best) ==
  IF j > bhi \/ bhi - j + 1 <= best[3] THEN best
  ELSE IF a[i] # b[j] THEN ScanRow(a, b, i, j + 1, ahi, bhi, best)
  ELSE LET k == RunLen(a, b, i, j, ahi, bhi)
       IN  ScanRow(a, b, i, j + 1, ahi, bhi, IF k > best[3] THEN <<i, j, k>> ELSE best)

RECURSIVE ScanRows(_, _, _, _, _, _, _)
ScanRows(a, b, i, ahi, blo, bhi, best) ==
  IF i > ahi \/ ahi - i + 1 <= best[3] THEN best
  ELSE LET next == ScanRow(a, b, i, blo, ahi, bhi, best)
       IN  IF next[3] >= 0 THEN ScanRows(a, b, i + 1, ahi, blo, bhi, next) ELSE best

\* <<i, j, k>> with k maximal, then i minimal, then j minimal
find_longest_match(a, b, alo, ahi, blo, bhi) ==
  ScanRows(a, b, alo, ahi, blo, bhi, <<alo, blo, 0>>)

\* SequenceMatcher.get_matching_blocks() without the closing sentinel: the
\* longest match, then the matches to its left and to its right
RECURSIVE matching_blocks(_, _, _, _, _, _)
matching_blocks(a, b, alo, ahi, blo, bhi) ==
  IF alo > ahi \/ blo > bhi THEN <<>>
  ELSE LET x == find_longest_match(a, b, alo, ahi, blo, bhi)
       IN  IF x[3] = 0 THEN <<>>
           ELSE matching_blocks(a, b, alo, x[1] - 1, blo, x[2] - 1)
                \o <<x>>
                \o matching_blocks(a, b, x[1] + x[3], ahi, x[2] + x[3], bhi)

\* the blocks of a whole pair of strings
Blocks(a, b) == matching_blocks(a, b, 1, Len(a), 1, Len(b))

\* the characters matched: the sum of the block sizes
RECURSIVE SumSizes(_)
SumSizes(blocks) ==
  IF blocks = <<>> THEN 0 ELSE blocks[1][3] + SumSizes(Tail(blocks))

\* utils.intr(100 * SequenceMatcher(None, a, b).ratio()); ratio() of two
\* empty strings is 1.0
SeqRatio(a, b) ==
  IF Len(a) + Len(b) = 0 THEN 100
  ELSE Intr200(SumSizes(Blocks(a, b)), Len(a) + Len(b))

\* fuzz.ratio
ratio(s1, s2) ==
  IF s1 = s2 THEN 100
  ELSE IF Len(s1) = 0 \/ Len(s2) = 0 THEN 0
  ELSE SeqRatio(s1, s2)

\* the largest member of a non-empty set of integers
MaxOf(S) == CHOOSE x \in S : \A y \in S : y <= x

\* fuzz.partial_ratio: the shorter string against the windows of the longer
\* one that the matching blocks (and the closing sentinel) line up
partial_ratio(s1, s2) ==
  IF s1 = s2 THEN 100
  ELSE IF Len(s1) = 0 \/ Len(s2) = 0 THEN 0
  ELSE LET shorter == IF Len(s1) <= Len(s2) THEN s1 ELSE s2
           longer  == IF Len(s1) <= Len(s2) THEN s2 ELSE s1
           blocks  == Blocks(shorter, longer)
           starts  == {IF blocks[n][2] - blocks[n][1] > 0
                       THEN blocks[n][2] - blocks[n][1] ELSE 0 : n \in 1..Len(blocks)}
                      \cup {Len(longer) - Len(shorter)}
           Window(long_start) ==
             SubSeq(longer, long_start + 1,
                    IF long_start + Len(shorter) <= Len(longer)
                    THEN long_start + Len(shorter) ELSE Len(longer))
       IN  MaxOf({SeqRatio(shorter, Window(st)) : st \in starts})

\* the rank of a lower-case letter in code-point order (lower-case letters
\* are what utils.full_process leaves in the tokens of a name); 0 otherwise
RankOf ==
  [a |-> 1, b |-> 2, c |-> 3, d |-> 4, e |-> 5, f |-> 6, g |-> 7, h |-> 8,
   i |-> 9, j |-> 10, k |-> 11, l |-> 12, m |-> 13, n |-> 14, o |-> 15,
   p |-> 16, q |-> 17, r |-> 18, s |-> 19, t |-> 20, u |-> 21, v |-> 22,
   w |-> 23, x |-> 24, y |-> 25, z |-> 26]
CharRank(c) == IF c \in DOMAIN RankOf THEN RankOf[c] ELSE 0

\* s < t for Python str
RECURSIVE StrLess(_, _)
StrLess(s, t) ==
  IF t = <<>> THEN FALSE
  ELSE IF s = <<>> THEN TRUE
  ELSE IF CharRank(Head(s)) # CharRank(Head(t))
       THEN CharRank(Head(s)) < CharRank(Head(t))
       ELSE StrLess(Tail(s), Tail(t))

\* sorted(tokens) of a set of strings, as a sequence
RECURSIVE SortedSet(_)
SortedSet(S) ==
  IF S = {} THEN <<>>
  ELSE LET m == CHOOSE x \in S : \A y \in S : y = x \/ StrLess(x, y)
       IN  <<m>> \o SortedSet(S \ {m})

\* sorted(tokens) of a list of strings: equal tokens stay, in their number
RECURSIVE SortedSeq(_)
SortedSeq(q) ==
  IF q = <<>> THEN <<>>
  ELSE LET k == CHOOSE i \in 1..Len(q) :
                  \A j \in 1..Len(q) : ~ StrLess(q[j], q[i])
       IN  <<q[k]>> \o SortedSeq(SubSeq(q, 1, k - 1) \o SubSeq(q, k + 1, Len(q)))

\* a character that \W does not match
IsWordChar(c) == CharRank(c) > 0 \/ c = "_"

\* utils.full_process: every non-word character becomes a space, then
\* lower-cased and stripped
full_process(s) ==
  Strip(Lower([i \in 1..Len(s) |-> IF IsWordChar(LowerChar(s[i])) THEN s[i] ELSE " "]))

\* fuzz._process_and_sort
process_and_sort(s) == Strip(Join(SortedSeq(Split(full_process(s))), <<" ">>))

\* fuzz.token_sort_ratio
token_sort_ratio(s1, s2) == ratio(process_and_sort(s1), process_and_sort(s2))

\* the elements of a sequence
Range(q) == {q[i] : i \in 1..Len(q)}

\* fuzz.token_set_ratio
token_set_ratio(s1, s2) ==
  LET p1 == full_process(s1)
      p2 == full_process(s2)
      tokens1 == Range(Split(p1))
      tokens2 == Range(Split(p2))
      sorted_sect == Join(SortedSet(tokens1 \cap tokens2), <<" ">>)
      sorted_1to2 == Join(SortedSet(tokens1 \ tokens2), <<" ">>)
      sorted_2to1 == Join(SortedSet(tokens2 \ tokens1), <<" ">>)
      sect == Strip(sorted_sect)
      combined_1to2 == Strip(Sp(sorted_sect, sorted_1to2))
      combined_2to1 == Strip(Sp(sorted_sect, sorted_2to1))
  IN  IF Len(p1) = 0 \/ Len(p2) = 0 THEN 0
      ELSE MaxOf({ratio(sect, combined_1to2), ratio(sect, combined_2to1),
                  ratio(combined_1to2, combined_2to1)})

\* ------------------------------------------------------------------------
\* matcher/matcher.py
\* ------------------------------------------------------------------------

\* calculate_multiple_fuzzy_scores
calculate_multiple_fuzzy_scores(variant, article_name) ==
  [ratio            |-> ratio(variant, article_name),
   partial_ratio    |-> partial_ratio(variant, article_name),
   token_sort_ratio |-> token_sort_ratio(variant, article_name),
   token_set_ratio  |-> token_set_ratio(variant, article_name)]

\* combined_score without the partial_ratio term of line 35: what C15 rests
\* on
combined_score_no_partial(scores) ==
  scores.token_set_ratio * 4 + scores.token_sort_ratio * 3 + scores.ratio * 2

\* get_best_fuzzy_match, lines 31-36: the weighted combination, in tenths
combined_score(scores) ==
  scores.token_set_ratio * 4 + scores.token_sort_ratio * 3
  + scores.ratio * 2 + scores.partial_ratio * 1

\* get_best_fuzzy_match, lines 27-42: the inner loop over article_names for
\* one variant; best is <<best_score, best_variant, best_match>>, scores the
\* fused score of every pair
RECURSIVE BestOverArticles(_, _, _, _, _)
BestOverArticles(variant, article_names, n, scores, best) ==
  IF n > Len(article_names) THEN best
  ELSE BestOverArticles(variant, article_names, n + 1, scores,
         IF scores[<<variant, article_names[n]>>] > best[1]
         THEN <<scores[<<variant, article_names[n]>>], variant, article_names[n]>>
         ELSE best)

\* get_best_fuzzy_match, lines 26-44: the outer loop over the variants in
\* the order the set yields them
RECURSIVE BestOverVariants(_, _, _, _)
BestOverVariants(order, article_names, scores, best) ==
  IF order = <<>> THEN best
  ELSE LET next == BestOverArticles(Head(order), article_names, 1, scores, best)
       IN  IF next[1] >= 0
           THEN BestOverVariants(Tail(order), article_names, scores, next)
           ELSE best

\* get_best_fuzzy_match(name_variants, article_names), order the sequence in
\* which the set name_variants is iterated
get_best_fuzzy_match(order, article_names, scores) ==
  LET best == BestOverVariants(order, article_names, scores, <<0, NoneVal, NoneVal>>)
  IN  [best_score |-> best[1], best_variant |-> best[2], best_match |-> best[3]]

\* the confidence values, as str
High == <<"h", "i", "g", "h">>
Medium == <<"m", "e", "d", "i", "u", "m">>
Low == <<"l", "o", "w">>

\* "score": None
NoneScore == -1

\* A response of the disambiguation oracle (llm.invoke in
\* llm_name_match_fallback): NotCalled when it was not invoked, Raises when
\* the call raised, otherwise the text it returned
NotCalled == <<"NotCalled">>
Raises == <<"Raises">>

\* next((line for line in lines if line.lower().startswith(prefix)), "")
RECURSIVE FirstLineWith(_, _)
FirstLineWith(lines, prefix) ==
  IF lines = <<>> THEN <<>>
  ELSE IF StartsWith(Lower(Head(lines)), prefix) THEN Head(lines)
  ELSE FirstLineWith(Tail(lines), prefix)

\* llm_name_match_fallback reading the confidence as written, without
\* .strip().lower() (line 146): what C4 rests on
llm_fallback_raw_confidence(fuzzy_score, best_variant, best_match, llm_response) ==
  IF llm_response = Raises
  THEN [match |-> FALSE, method |-> "llm_error", matched_name |-> NoneVal,
        matched_variant |-> NoneVal, score |-> NoneScore, confidence |-> Low]
  ELSE LET lines == SplitOn(Strip(llm_response), "\n")
           match_line == FirstLineWith(lines, <<"m", "a", "t", "c", "h", ":">>)
           confidence_line ==
             FirstLineWith(lines, <<"c", "o", "n", "f", "i", "d", "e", "n", "c", "e", ":">>)
       IN  [match |-> Contains(Lower(match_line), <<"y", "e", "s">>),
            method |-> "llm_disambiguation",
            matched_name |-> best_match, matched_variant |-> best_variant,
            score |-> NoneScore,
            confidence |-> IF confidence_line # <<>>
                           THEN AfterFirstColon(confidence_line) ELSE Medium]

\* llm_name_match_fallback whose except branch (lines 160-169) answers as
\* the parser does on a text with no MATCH and no CONFIDENCE line: what C5
\* rests on
llm_fallback_no_except(fuzzy_score, best_variant, best_match, llm_response) ==
  [match |-> FALSE, method |-> "llm_disambiguation",
   matched_name |-> best_match, matched_variant |-> best_variant,
   score |-> NoneScore, confidence |-> Medium]

\* llm_name_match_fallback(name_variants, article_names, fuzzy_score,
\* best_variant, best_match), llm_response what llm.invoke does
llm_name_match_fallback(fuzzy_score, best_variant, best_match, llm_response) ==
  IF llm_response = Raises
  THEN [match |-> FALSE, method |-> "llm_error", matched_name |-> NoneVal,
        matched_variant |-> NoneVal, score |-> NoneScore, confidence |-> Low]
  ELSE LET response == Strip(llm_response)
           lines == SplitOn(response, "\n")
           match_line == FirstLineWith(lines, <<"m", "a", "t", "c", "h", ":">>)
           confidence_line ==
             FirstLineWith(lines, <<"c", "o", "n", "f", "i", "d", "e", "n", "c", "e", ":">>)
           match == Contains(Lower(match_line), <<"y", "e", "s">>)
           confidence == IF confidence_line # <<>>
                         THEN Lower(Strip(AfterFirstColon(confidence_line)))
                         ELSE Medium
       IN  [match |-> match, method |-> "llm_disambiguation",
            matched_name |-> best_match, matched_variant |-> best_variant,
            score |-> NoneScore, confidence |-> confidence]

\* CallsFallback without the test of line 84 (elif best_score <
\* low_threshold): what C8 rests on
CallsFallbackBelowLow(name_variants, article_names, best_score, high_threshold, low_threshold) ==
  /\ name_variants # {} /\ article_names # <<>>
  /\ ~ (best_score >= high_threshold)

\* whether match_name_against_article reaches its else branch (lines 96-101)
\* and calls llm_name_match_fallback
CallsFallback(name_variants, article_names, best_score, high_threshold, low_threshold) ==
  /\ name_variants # {} /\ article_names # <<>>
  /\ ~ (best_score >= high_threshold)
  /\ ~ (best_score < low_threshold)

\* the three-way decision of lines 68-101 with the comparisons cmp_high and
\* cmp_low in the place of >= and <, the oracle's answer left at the
\* parser's defaults
ThreeWay(best, cmp_high, cmp_low) ==
  IF cmp_high
  THEN [match |-> TRUE, method |-> "fuzzy_high_confidence",
        matched_name |-> best.best_match, matched_variant |-> best.best_variant,
        score |-> best.best_score, confidence |-> High]
  ELSE IF cmp_low
  THEN [match |-> FALSE, method |-> "fuzzy_high_confidence",
        matched_name |-> best.best_match, matched_variant |-> best.best_variant,
        score |-> best.best_score, confidence |-> High]
  ELSE [match |-> FALSE, method |-> "llm_disambiguation",
        matched_name |-> best.best_match, matched_variant |-> best.best_variant,
        score |-> NoneScore, confidence |-> Medium]

\* match_name_against_article without the guard of line 57: what C1 rests on
match_without_no_data(name_variants, article_names, high_threshold, low_threshold, best, llm_response) ==
  ThreeWay(best, best.best_score >= high_threshold,
           best.best_score < low_threshold)

\* match_name_against_article with > for >= at line 71: what C2 rests on
match_strict_high(name_variants, article_names, high_threshold, low_threshold, best, llm_response) ==
  IF name_variants = {} \/ article_names = <<>>
  THEN [match |-> FALSE, method |-> "no_data", matched_name |-> NoneVal,
        matched_variant |-> NoneVal, score |-> 0, confidence |-> High]
  ELSE ThreeWay(best, best.best_score > high_threshold,
                best.best_score < low_threshold)

\* match_name_against_article with <= for < at line 84: what C3 rests on
match_inclusive_low(name_variants, article_names, high_threshold, low_threshold, best, llm_response) ==
  IF name_variants = {} \/ article_names = <<>>
  THEN [match |-> FALSE, method |-> "no_data", matched_name |-> NoneVal,
        matched_variant |-> NoneVal, score |-> 0, confidence |-> High]
  ELSE ThreeWay(best, best.best_score >= high_threshold,
                best.best_score <= low_threshold)

\* match_name_against_article with <= for >= at line 71: what C14 rests on
match_reversed_high(name_variants, article_names, high_threshold, low_threshold, best, llm_response) ==
  IF name_variants = {} \/ article_names = <<>>
  THEN [match |-> FALSE, method |-> "no_data", matched_name |-> NoneVal,
        matched_variant |-> NoneVal, score |-> 0, confidence |-> High]
  ELSE ThreeWay(best, best.best_score <= high_threshold,
                best.best_score < low_threshold)

\* match_name_against_article(name_variants, article_names, high_threshold,
\* low_threshold), best what get_best_fuzzy_match returned
match_name_against_article(name_variants, article_names, high_threshold, low_threshold, best, llm_response) ==
  IF name_variants = {} \/ article_names = <<>>
  THEN [match |-> FALSE, method |-> "no_data", matched_name |-> NoneVal,
        matched_variant |-> NoneVal, score |-> 0, confidence |-> High]
  ELSE IF best.best_score >= high_threshold
  THEN [match |-> TRUE, method |-> "fuzzy_high_confidence",
        matched_name |-> best.best_match, matched_variant |-> best.best_variant,
        score |-> best.best_score, confidence |-> High]
  ELSE IF best.best_score < low_threshold
  THEN [match |-> FALSE, method |-> "fuzzy_high_confidence",
        matched_name |-> best.best_match, matched_variant |-> best.best_variant,
        score |-> best.best_score, confidence |-> High]
  ELSE llm_name_match_fallback(best.best_score, best.best_variant,
                               best.best_match, llm_response)

\* ------------------------------------------------------------------------
\* Inputs
\* ------------------------------------------------------------------------

\* the most whitespace-separated tokens of a full name
MaxNameTokens == 2

\* the most names the extraction collaborator hands over
MaxArticleNames == 2

\* the tokens full names are drawn from: a first name, a last name, a title
NameTokens == {<<"J", "o">>, <<"W", "u">>, <<"M", "r", ".">>}

\* the sequences over S of length at most n
SeqsUpTo(S, n) == UNION {[1..k -> S] : k \in 0..n}

\* evaluator.py line 68: name="Michael Brown"
MichaelBrown == <<"M", "i", "c", "h", "a", "e", "l", " ", "B", "r", "o", "w", "n">>

\* evaluator.py line 69: the one name of the article "Michelle Brown won
\* ...", as extract_person_names returns it (lower-cased)
MichelleBrown == <<"m", "i", "c", "h", "e", "l", "l", "e", " ", "b", "r", "o", "w", "n">>

\* full names: the tokens joined by one space, and names that are blank,
\* padded with whitespace, upper-case with a middle name, hyphenated, with
\* an apostrophe, made of parenthesised nicknames, or led by titles
FullNames ==
  {Join(ts, <<" ">>) : ts \in SeqsUpTo(NameTokens, MaxNameTokens)}
  \cup {<<" ", " ">>,
        <<" ", "J", "o", " ", " ", "W", "u", "\n">>,
        <<"J", "O", " ", "l", "i", " ", "W", "U">>,
        <<"J", "o", " ", "L", "i", "-", "W", "u">>,
        <<"J", "o", " ", "O", "'", "W", "u">>,
        <<"(", "E", "d", ")", " ", "W", "u">>,
        <<"(", "E", "d", ")", " ", "(", "W", "u", ")">>,
        <<"M", "r", ".", " ", "(", "E", "d", ")">>,
        <<"J", "o", " ", "(", "E", "d", ")", " ", "W", "u">>,
        <<"M", "r", ".", " ", "J", "o", " ", "W", "u">>,
        <<"M", "r", ".", " ", "M", "r", ".", " ", "W", "u">>,
        MichaelBrown}

\* what the nickname lookup may answer
NickResponses ==
  {[kind |-> "raise", items |-> <<>>],
   [kind |-> "prose", items |-> <<>>],
   [kind |-> "badlit", items |-> <<>>],
   [kind |-> "list", items |-> <<>>],
   [kind |-> "list", items |-> <<<<"J", "o", "e", "y">>, <<" ">>>>],
   [kind |-> "list", items |-> <<<<"j", "o", "j", "o">>, NonStr>>]}

\* the names an article may mention
ArticleNames == {<<"j", "o", " ", "w", "u">>, <<"x", "y">>}

\* the article-name lists handed to the matcher: duplicates allowed
ArticleLists ==
  SeqsUpTo(ArticleNames, MaxArticleNames)
  \cup {<<<<"j", "o", "e", " ", "w", "u">>>>,
        <<<<"e", "d", " ", "l", "i">>, <<"w", "u", " ", "j", "o">>>>,
        <<MichelleBrown>>,
        <<<<"x", "y", " ", "w", "u">>>>}

\* the default thresholds, in tenths
DefaultHigh == 850
DefaultLow == 200

\* the <<high_threshold, low_threshold>> pairs of the calls, in tenths
ThresholdPairs ==
  {<<DefaultHigh, DefaultLow>>, <<1000, DefaultLow>>, <<1010, 1000>>,
   <<DefaultHigh, 0>>, <<DefaultLow, DefaultHigh>>}

\* the lines an oracle response is made of
VerdictLines ==
  {<<>>,
   <<"M", "A", "T", "C", "H", ":", " ", "y", "e", "s">>,
   <<"M", "A", "T", "C", "H", ":", " ", "n", "o">>,
   <<"M", "a", "t", "c", "h", ":", " ", "m", "a", "y", "b", "e">>}
ConfidenceLines ==
  {<<>>,
   <<"C", "O", "N", "F", "I", "D", "E", "N", "C", "E", ":", " ", "h", "i", "g", "h">>,
   <<"C", "O", "N", "F", "I", "D", "E", "N", "C", "E", ":", " ", "m", "e", "d", "i", "u", "m">>,
   <<"C", "o", "n", "f", "i", "d", "e", "n", "c", "e", ":", "L", "O", "W", " ">>,
   <<"C", "O", "N", "F", "I", "D", "E", "N", "C", "E", ":", " ", "u", "n", "s", "u", "r", "e">>}
ExplanationLine ==
  <<"E", "X", "P", "L", "A", "N", "A", "T", "I", "O", "N", ":", " ", "o", "k">>

\* the text of a response with the verdict line v and the confidence line c
\* (either may be missing), closed by the explanation; the empty text when
\* both are missing
ResponseOf(v, c) ==
  Join(SelectSeq(<<v, c, IF v = <<>> /\ c = <<>> THEN <<>> ELSE ExplanationLine>>,
                 LAMBDA l : l # <<>>), <<"\n">>)

\* what llm.invoke may do in llm_name_match_fallback: raise, or return text
\* (the lines it has, joined; the empty text; indented lines)
OracleResponses ==
  {Raises}
  \cup {ResponseOf(v, c) : v \in VerdictLines, c \in ConfidenceLines}
  \cup {<<"n", "o", " ", "i", "d", "e", "a">>,
        <<" ", "M", "A", "T", "C", "H", ":", " ", "n", "o", "\n", " ",
          "C", "O", "N", "F", "I", "D", "E", "N", "C", "E", ":", " ",
          "h", "i", "g", "h", "\n">>}

\* every variant generate_name_variants can return, and every article name
AllVariants ==
  UNION {generate_name_variants(name, resp).value :
           name \in FullNames, resp \in NickResponses}
AllArticleNames == UNION {Range(names) : names \in ArticleLists}

\* get_best_fuzzy_match, lines 28-36: the fused score, in tenths, of every
\* pair of a variant and an article name (the scorers are pure: each pair's
\* score is worked out once, and @@ has TLC hold the table, not the rule)
FusedScores ==
  [p \in AllVariants \X AllArticleNames |->
     combined_score(calculate_multiple_fuzzy_scores(p[1], p[2]))] @@ <<>>

\* a set as a sequence, in some fixed order
RECURSIVE SetToSeq(_)
SetToSeq(S) ==
  IF S = {} THEN <<>>
  ELSE LET x == CHOOSE x \in S : TRUE IN <<x>> \o SetToSeq(S \ {x})

\* the orders in which Python may iterate the set S that matter to a
\* first-seen-wins scan: every element comes first in one of them
IterationOrders(S) ==
  IF S = {} THEN {<<>>}
  ELSE {<<x>> \o SetToSeq(S \ {x}) : x \in S}

\* ------------------------------------------------------------------------
\* State
\* ------------------------------------------------------------------------

vars == <<phase, case_name, case_variants, gen_raised, case_nick, case_articles, case_high,
          case_low, case_best, llm_calls, case_response, result>>

\* no nickname lookup made yet
NoNick == [kind |-> "none", items |-> <<>>]

NoBest == [best_score |-> 0, best_variant |-> NoneVal, best_match |-> NoneVal]

NoResult ==
  [match |-> FALSE, method |-> "none", matched_name |-> NoneVal,
   matched_variant |-> NoneVal, score |-> NoneScore, confidence |-> NoneVal]

Init ==
  /\ phase = "idle"
  /\ case_name = <<>>
  /\ case_variants = {}
  /\ gen_raised = FALSE
  /\ case_nick = NoNick
  /\ case_articles = <<>>
  /\ case_high = DefaultHigh
  /\ case_low = DefaultLow
  /\ case_best = NoBest
  /\ llm_calls = 0
  /\ case_response = NotCalled
  /\ result = NoResult

\* the state after generate_name_variants returned r
Generated(n, r) ==
  /\ case_name' = n
  /\ case_variants' = r.value
  /\ gen_raised' = r.raised

\* the state after generate_name_variants(n) ran with the nickname lookup
\* answering resp
GeneratedWith(n, resp) ==
  /\ Generated(n, generate_name_variants(n, resp))
  /\ case_nick' = resp

\* run.py line 276, evaluator.py line 103: variants = generate_name_variants(name)
GenerateVariants ==
  /\ phase = "idle"
  /\ \E n \in FullNames, resp \in NickResponses : GeneratedWith(n, resp)
  /\ phase' = "generated"
  /\ UNCHANGED <<case_articles, case_high, case_low, case_best, llm_calls,
                 case_response, result>>

\* what get_best_fuzzy_match may return, over the orders in which the set
\* of variants may be iterated
BestsWith(name_variants, names, scores) ==
  {get_best_fuzzy_match(order, names, scores) : order \in IterationOrders(name_variants)}

Bests(name_variants, names) ==
  IF name_variants = {} \/ names = <<>> THEN {NoBest}
  ELSE BestsWith(name_variants, names, FusedScores)

\* what llm.invoke may do in the call: nothing when it is not reached
ResponsesIf(called) == IF called THEN OracleResponses ELSE {NotCalled}

\* the state after match_name_against_article(variants, names, high, low)
Decided(names, high, low, b, called, resp) ==
  /\ case_articles' = names
  /\ case_high' = high
  /\ case_low' = low
  /\ case_best' = b
  /\ llm_calls' = IF called THEN 1 ELSE 0
  /\ case_response' = resp
  /\ result' = match_name_against_article(case_variants, names, high, low, b, resp)

\* run.py line 282, evaluator.py line 109: match_name_against_article(variants,
\* article_names, high_threshold, low_threshold)
MatchAgainstArticle ==
  /\ phase = "generated"
  /\ ~ gen_raised
  /\ \E names \in ArticleLists :
       \E b \in Bests(case_variants, names), t \in ThresholdPairs :
         \E called \in {CallsFallback(case_variants, names, b.best_score, t[1], t[2])} :
           \E resp \in ResponsesIf(called) :
             Decided(names, t[1], t[2], b, called, resp)
  /\ phase' = "decided"
  /\ case_nick' = NoNick
  /\ UNCHANGED <<case_name, case_variants, gen_raised>>

\* evaluator.py line 99: the next test case
NextCase ==
  /\ phase \in {"decided", "generated"}
  /\ phase = "generated" => gen_raised
  /\ phase' = "idle"
  /\ case_name' = <<>>
  /\ case_variants' = {}
  /\ gen_raised' = FALSE
  /\ case_nick' = NoNick
  /\ case_articles' = <<>>
  /\ case_high' = DefaultHigh
  /\ case_low' = DefaultLow
  /\ case_best' = NoBest
  /\ llm_calls' = 0
  /\ case_response' = NotCalled
  /\ result' = NoResult

Next == GenerateVariants \/ MatchAgainstArticle \/ NextCase

Spec == Init /\ [][Next]_vars

\* ------------------------------------------------------------------------
\* Properties
\* ------------------------------------------------------------------------

\* match_name_against_article has returned for the case at hand
DecisionReturned == phase = "decided"

\* both inputs of the call are non-empty
NonEmptyInputs == case_variants # {} /\ case_articles # <<>>

\* the best fused score of the call, in tenths
BestScore == case_best.best_score

\* the uncertain band: low_threshold <= s < high_threshold
InBand == NonEmptyInputs /\ case_low <= BestScore /\ BestScore < case_high

\* the decision is the confident no-match of lines 85-94
ConfidentNoMatch ==
  /\ result.match = FALSE
  /\ result.method = "fuzzy_high_confidence"
  /\ result.confidence = High

\* C1: a call with no variants or no article names returns match=false,
\* method "no_data", confidence "high", whatever the thresholds, and the
\* oracle is not invoked
C1_NoData ==
  (DecisionReturned /\ (case_variants = {} \/ case_articles = <<>>))
    => /\ result.match = FALSE
       /\ result.method = "no_data"
       /\ result.confidence = High
       /\ llm_calls = 0

\* C1: a call with variants but no article names, under a low threshold of 0
\* (so that the score 0 of nothing compared is not below it), was decided
C1_Witness ==
  /\ DecisionReturned
  /\ case_variants # {} /\ case_articles = <<>>
  /\ case_low = 0
  /\ result.method = "no_data"

\* C2: with both inputs non-empty, a best fused score s >= high_threshold
\* (s = high_threshold included) returns match=true, method
\* "fuzzy_high_confidence", confidence "high", and the oracle is not invoked
C2_HighMatch ==
  (DecisionReturned /\ NonEmptyInputs /\ BestScore >= case_high)
    => /\ result.match = TRUE
       /\ result.method = "fuzzy_high_confidence"
       /\ result.confidence = High
       /\ llm_calls = 0

\* C2: a call whose best fused score is exactly high_threshold was a match
C2_Witness ==
  /\ DecisionReturned /\ NonEmptyInputs
  /\ BestScore = case_high
  /\ result.match = TRUE

\* C3 as stated: with both inputs non-empty, s < low_threshold returns the
\* confident no-match without the oracle, and s = low_threshold is never the
\* confident no-match but goes to the oracle
C3_AsStated ==
  (DecisionReturned /\ NonEmptyInputs)
    => /\ BestScore < case_low => (ConfidentNoMatch /\ llm_calls = 0)
       /\ BestScore = case_low => (~ ConfidentNoMatch /\ llm_calls = 1)

\* C3 amended: with both inputs non-empty and s < high_threshold (the test
\* line 71 makes first), s < low_threshold returns the confident no-match
\* without the oracle, and s = low_threshold is not the confident no-match
\* but goes to the oracle; s = low_threshold is never the confident no-match
C3_LowNoMatch ==
  (DecisionReturned /\ NonEmptyInputs)
    => /\ (BestScore < case_low /\ BestScore < case_high)
            => (ConfidentNoMatch /\ llm_calls = 0)
       /\ (BestScore = case_low /\ BestScore < case_high)
            => (~ ConfidentNoMatch /\ llm_calls = 1)
       /\ BestScore = case_low => ~ ConfidentNoMatch

\* C3: a call whose best fused score is exactly low_threshold, and below
\* high_threshold, went to the oracle
C3_Witness ==
  /\ DecisionReturned /\ NonEmptyInputs
  /\ BestScore = case_low /\ BestScore < case_high
  /\ llm_calls = 1
  /\ result.method \in {"llm_disambiguation", "llm_error"}

\* the verdict line of a well-formed response: yes when v, no otherwise
VerdictLine(v) ==
  IF v THEN <<"M", "A", "T", "C", "H", ":", " ", "y", "e", "s">>
  ELSE <<"M", "A", "T", "C", "H", ":", " ", "n", "o">>

\* the confidence line of a well-formed response with the confidence c
ConfidenceLine(c) ==
  IF c = High
  THEN <<"C", "O", "N", "F", "I", "D", "E", "N", "C", "E", ":", " ", "h", "i", "g", "h">>
  ELSE IF c = Medium
  THEN <<"C", "O", "N", "F", "I", "D", "E", "N", "C", "E", ":", " ", "m", "e", "d", "i", "u", "m">>
  ELSE <<"C", "o", "n", "f", "i", "d", "e", "n", "c", "e", ":", "L", "O", "W", " ">>

\* the well-formed responses: a yes/no verdict line, a high/medium/low
\* confidence line, an explanation
WellFormedResponses ==
  {ResponseOf(VerdictLine(v), ConfidenceLine(c)) :
     v \in BOOLEAN, c \in {High, Medium, Low}}

\* the responses that lack a yes/no verdict line or a high/medium/low
\* confidence line: the empty text and a text of prose among them
MalformedResponses ==
  ({ResponseOf(v, c) : v \in VerdictLines, c \in ConfidenceLines}
     \cup {<<"n", "o", " ", "i", "d", "e", "a">>})
  \ WellFormedResponses

\* the pairs of a variant and an article name of the call
CasePairs == case_variants \X Range(case_articles)

\* the pair <<variant, name>> is one of the call's pairs, its fused score is
\* the best score, and no pair scores more
IsBestPair(variant, name) ==
  /\ <<variant, name>> \in CasePairs
  /\ FusedScores[<<variant, name>>] = BestScore
  /\ \A p \in CasePairs : FusedScores[p] <= BestScore

C5_OracleFailure ==
  (DecisionReturned /\ InBand /\ case_response = Raises)
    => /\ result.match = FALSE
       /\ result.confidence = Low
       /\ result.method = "llm_error"

\* C5: the oracle call raised in the uncertain band and a decision came back
C5_Witness ==
  /\ DecisionReturned /\ InBand
  /\ case_response = Raises
  /\ llm_calls = 1
  /\ result.method = "llm_error"

\* C6 as stated: when the oracle answers in the uncertain band with a text
\* that has no yes/no MATCH line or no high/medium/low CONFIDENCE line (the
\* empty text included), the decision is match=false, confidence "low",
\* method "llm_error"
C6_AsStated ==
  (DecisionReturned /\ InBand /\ case_response \in MalformedResponses)
    => /\ result.match = FALSE
       /\ result.confidence = Low
       /\ result.method = "llm_error"

\* C7 as stated: every returned decision has a method among
\* fuzzy_high_confidence, llm_disambiguation, llm_error, no_data and a
\* confidence among high, medium, low
C7_AsStated ==
  DecisionReturned
    => /\ result.method \in {"fuzzy_high_confidence", "llm_disambiguation",
                             "llm_error", "no_data"}
       /\ result.confidence \in {High, Medium, Low}

\* C8: within one call the oracle is invoked at most once, only when both
\* inputs are non-empty and low_threshold <= s < high_threshold, and never
\* on the no_data, confident-match and confident-no-match paths
C8_OracleAtMostOnce ==
  /\ llm_calls \in {0, 1}
  /\ llm_calls = 1 => (DecisionReturned /\ InBand)
  /\ (DecisionReturned /\ result.method \in {"no_data", "fuzzy_high_confidence"})
       => llm_calls = 0
  /\ (DecisionReturned /\ result.method \in {"llm_disambiguation", "llm_error"})
       => llm_calls = 1

\* C8: a call in the uncertain band invoked the oracle once
C8_Witness ==
  /\ DecisionReturned /\ InBand
  /\ llm_calls = 1
  /\ case_response \notin {NotCalled, Raises}

\* the first, middle and last names HumanName parsed from the case's name,
\* lower-cased and stripped
CaseParsed == ParsedParts(HumanName(case_name))

\* C9: for a full name whose parsed first and last names are both non-empty,
\* generate_name_variants returns, whatever the nickname lookup does, a
\* non-empty set that holds the lower-cased "first last"
C9_FirstLast ==
  (phase # "idle" /\ CaseParsed.first # <<>> /\ CaseParsed.last # <<>>)
    => /\ ~ gen_raised
       /\ case_variants # {}
       /\ Sp(CaseParsed.first, CaseParsed.last) \in case_variants

\* C9: the variants of "JO li WU" were generated and hold "jo wu"
C9_Witness ==
  /\ phase = "generated"
  /\ case_name = <<"J", "O", " ", "l", "i", " ", "W", "U">>
  /\ <<"j", "o", " ", "w", "u">> \in case_variants

\* the first or the last name of the case's name cannot be determined, the
\* fallback of lines 53-59 included
Undetermined ==
  \/ case_name = <<>>
  \/ Strip(case_name) = <<>>
  \/ NameParts(case_name).first = <<>>
  \/ NameParts(case_name).last = <<>>

\* C10: for a full name that is empty, blank, or whose first or last name
\* cannot be determined after the fallback, generate_name_variants returns
\* the empty set without raising, and match_name_against_article on that set
\* returns the no_data decision (match=false, confidence "high")
C10_NoVariants ==
  (phase # "idle" /\ Undetermined)
    => /\ ~ gen_raised
       /\ case_variants = {}
       /\ DecisionReturned
            => /\ result.match = FALSE
               /\ result.method = "no_data"
               /\ result.confidence = High

\* C10: a name of a title and one name only ("Mr. Wu": no first name) was
\* generated to the empty set and decided against a non-empty article list
C10_Witness ==
  /\ DecisionReturned
  /\ Strip(case_name) # <<>> /\ NameParts(case_name).first = <<>>
  /\ case_variants = {}
  /\ case_articles # <<>>
  /\ result.method = "no_data"

\* a variant is in normal form: non-empty, lower-case, trimmed, and without
\* a run of two or more whitespace characters
NormalForm(v) ==
  /\ v # <<>>
  /\ Lower(v) = v
  /\ Strip(v) = v
  /\ CollapseSpaces(v) = v

\* C11 as stated: every string generate_name_variants returns is in normal
\* form, on every path: the whitespace-token fallback, the nickname variants
\* (whatever the lookup's casing) and the punctuation-stripped duplicates
C11_AsStated ==
  phase # "idle" => \A v \in case_variants : NormalForm(v)

\* the nickname lookup raised, or answered with something that is not a
\* bracketed list literal of strings
LookupFailed(resp) ==
  \/ resp.kind \in {"raise", "prose", "badlit"}
  \/ resp.kind = "list" /\ \E i \in 1..Len(resp.items) : resp.items[i] = NonStr

\* the lookup's answer "[]": no nicknames
NoNicknames == [kind |-> "list", items |-> <<>>]

\* C12: when the nickname lookup raises or answers with a malformed response,
\* generate_name_variants does not raise and returns exactly the set it
\* returns when the lookup yields no nicknames
C12_LookupFailure ==
  (phase = "generated" /\ LookupFailed(case_nick))
    => /\ ~ gen_raised
       /\ case_variants = generate_name_variants(case_name, NoNicknames).value

\* C12: the lookup answered with a list holding a non-string, and variants
\* came back
C12_Witness ==
  /\ phase = "generated"
  /\ case_nick.kind = "list" /\ LookupFailed(case_nick)
  /\ ~ gen_raised
  /\ case_variants # {}

\* the decision of a second call with the inputs, the thresholds and the
\* oracle answer of the call made, when get_best_fuzzy_match returns b
SecondCall(b) ==
  match_name_against_article(case_variants, case_articles, case_high, case_low,
                             b, case_response)

\* two decisions agree on match, method, confidence, matched_variant and
\* matched_name
SameDecision(d, e) ==
  /\ d.match = e.match
  /\ d.method = e.method
  /\ d.confidence = e.confidence
  /\ d.matched_variant = e.matched_variant
  /\ d.matched_name = e.matched_name

\* C13 as stated: a second call with the same variant set, article names,
\* thresholds and oracle answer returns a decision with the same match,
\* method, confidence, matched_variant and matched_name, in whatever order
\* the variant set is iterated
C13_AsStated ==
  DecisionReturned
    => \A b \in Bests(case_variants, case_articles) :
         SameDecision(SecondCall(b), result)

\* the high thresholds of the model's calls
HighThresholds == {t[1] : t \in ThresholdPairs}

\* the decision of a call with the case's variants, article names and
\* low_threshold under the high threshold h, when get_best_fuzzy_match
\* returns b and the oracle, if asked, does r
DecisionAt(h, b, r) ==
  match_name_against_article(case_variants, case_articles, h, case_low, b, r)

\* the decision is the fuzzy match of lines 71-81
IsFuzzyMatch(d) == d.match = TRUE /\ d.method = "fuzzy_high_confidence"

\* what the oracle is taken to do in the compared calls: fail, or answer
\* "MATCH: yes"
ComparedAnswers == {Raises, VerdictLine(TRUE)}

\* with get_best_fuzzy_match returning one of bs in each call, a fuzzy match
\* under a high threshold is a fuzzy match under every lower one
MonotoneOver(bs) ==
  \A h1 \in HighThresholds, h2 \in HighThresholds :
    h1 < h2 =>
      \A b1 \in bs, b2 \in bs, r \in ComparedAnswers :
        IsFuzzyMatch(DecisionAt(h2, b2, r)) => IsFuzzyMatch(DecisionAt(h1, b1, r))

\* C14: for fixed variants, article names and low_threshold and any h1 < h2,
\* a call that returns the fuzzy match with high_threshold = h2 returns it
\* with high_threshold = h1 too: raising high_threshold never turns another
\* outcome into a fuzzy match
C14_Monotone ==
  DecisionReturned => MonotoneOver({case_best})

\* C14: a call was a fuzzy match under the default high threshold, and is
\* not one under the high threshold 100
C14_Witness ==
  /\ DecisionReturned /\ NonEmptyInputs
  /\ case_high = DefaultHigh
  /\ IsFuzzyMatch(result)
  /\ ~ IsFuzzyMatch(DecisionAt(1000, case_best, Raises))

\* the call was made with the default thresholds, 85 and 20
DefaultThresholds == case_high = DefaultHigh /\ case_low = DefaultLow

\* the lower-cased "first last" of the case's name
FirstLast == Sp(CaseParsed.first, CaseParsed.last)

\* C15: with the default thresholds, for a name with non-empty first and
\* last names and an article list that holds the lower-cased "first last",
\* the variants include it, the best fused score is 100, and the decision is
\* match=true with confidence "high", the oracle not invoked
C15_ExactName ==
  (DecisionReturned /\ DefaultThresholds
     /\ CaseParsed.first # <<>> /\ CaseParsed.last # <<>>
     /\ FirstLast \in Range(case_articles))
    => /\ FirstLast \in case_variants
       /\ BestScore = 1000
       /\ result.match = TRUE
       /\ result.confidence = High
       /\ llm_calls = 0

\* C15: "JO li WU" was decided with the default thresholds against a list
\* that holds "jo wu" after another name, and matched on it
C15_Witness ==
  /\ DecisionReturned /\ DefaultThresholds
  /\ case_name = <<"J", "O", " ", "l", "i", " ", "W", "U">>
  /\ Len(case_articles) = 2
  /\ case_articles[2] = <<"j", "o", " ", "w", "u">>
  /\ case_articles[1] # case_articles[2]
  /\ result.match = TRUE
  /\ result.matched_name = <<"j", "o", " ", "w", "u">>

\* C16 as stated: with the default thresholds, for "Michael Brown" and an
\* article list of "michelle brown" only, the best fused score is below the
\* high threshold and the decision is match=false with confidence "high"
C16_AsStated ==
  (DecisionReturned /\ DefaultThresholds
     /\ case_name = MichaelBrown /\ case_articles = <<MichelleBrown>>)
    => /\ BestScore < case_high
       /\ result.match = FALSE
       /\ result.confidence = High

\* name is the first article name, in list order, with which variant has
\* the best score
FirstSeenName(variant, name) ==
  \E i \in 1..Len(case_articles) :
    /\ case_articles[i] = name
    /\ \A j \in 1..(i - 1) : FusedScores[<<variant, case_articles[j]>>] < BestScore

\* C17 as stated: for non-empty inputs get_best_fuzzy_match returns a pair
\* of a variant and an article name whose fused score is the returned
\* best_score and the highest of all pairs, the first seen on a tie (here:
\* the first such article name of its variant), also when every pair
\* scores 0
C17_AsStated ==
  (DecisionReturned /\ NonEmptyInputs)
    => /\ IsBestPair(case_best.best_variant, case_best.best_match)
       /\ FirstSeenName(case_best.best_variant, case_best.best_match)

\* the whitespace tokenization of a name of two or more tokens: the first
\* token the first name, the last token the last name, the tokens between
\* them the middle name
TokenParts(tokens) ==
  [first  |-> tokens[1],
   middle |-> Join(SubSeq(tokens, 2, Len(tokens) - 1), <<" ">>),
   last   |-> tokens[Len(tokens)]]

\* the parser left the first or the last name of the case's name empty, and
\* the name has two or more whitespace-separated tokens
FallbackDue ==
  /\ Strip(case_name) # <<>>
  /\ CaseParsed.first = <<>> \/ CaseParsed.last = <<>>
  /\ Len(Split(case_name)) >= 2

\* C18 as stated: whenever the parser leaves the first or the last name
\* empty and the name has at least two whitespace-separated tokens,
\* generate_name_variants returns the variants built from the whitespace
\* tokens (first token, interior tokens, last token), and it returns the
\* empty set only if first or last is still empty after that fallback
C18_AsStated ==
  (phase = "generated" /\ FallbackDue)
    => /\ case_variants = VariantsOfParts(TokenParts(Split(case_name)), case_nick).value
       /\ case_variants # {}

\* C19: the set generate_name_variants returns is closed under punctuation
\* stripping: with every string v it holds v without its apostrophes,
\* hyphens and periods, and stripping that string again changes nothing
C19_PunctuationClosed ==
  phase # "idle"
    => \A v \in case_variants :
         /\ StripPunct(v) \in case_variants
         /\ StripPunct(StripPunct(v)) = StripPunct(v)

\* C19: the variants of "Jo O'Wu" were generated: "jo o'wu" and, without
\* the apostrophe, "jo owu"; "j. o'wu" and "j owu"
C19_Witness ==
  /\ phase = "generated"
  /\ case_name = <<"J", "o", " ", "O", "'", "W", "u">>
  /\ <<"j", "o", " ", "o", "'", "w", "u">> \in case_variants
  /\ <<"j", "o", " ", "o", "w", "u">> \in case_variants
  /\ <<"j", ".", " ", "o", "'", "w", "u">> \in case_variants
  /\ <<"j", " ", "o", "w", "u">> \in case_variants

====
